---- MODULE Spec2Model ----
(***************************************************************************)
(* Model of machine_learning_client/ml.py: the audio-to-MIDI pipeline and  *)
(* the /process request handler.                                           *)
(*                                                                         *)
(* Units.  Pitch-frame times are in estimator steps (integers).  Onset     *)
(* times and durations are in ticks of 1/(2*sr) second, so that            *)
(* int(onset * sr) is a real truncation.  Sample amplitudes are in         *)
(* thousandths of full scale; confidences are in thousandths.  A mean is   *)
(* kept as an exact fraction [num, den].                                   *)
(***************************************************************************)
EXTENDS Integers, Sequences, FiniteSets, TLC

VARIABLES
    fn,        \* function applied to drawn inputs ("" before the call)
    arg,       \* the drawn inputs
    ret,       \* the value returned
    pc,        \* per invocation of process_data: the step it is at
    request,   \* per invocation: the HTTP request being served
    loc,       \* per invocation: the local variables of process_data
    response,  \* per invocation: the response returned
    raised,    \* per invocation: the call that raised ("" if none)
    calls,     \* per invocation: how often each external analyser was called
    temp,      \* per invocation: temporary files it wrote and removed
    fs,        \* the working directory: content of the two temporary files
    static,    \* static/output_<uuid>.mid, per invocation (its uuid)
    s3,        \* the bucket: output_<uuid>.mid, per invocation (its uuid)
    db         \* the midis collection

fnVars == <<fn, arg, ret>>
procVars == <<pc, request, loc, response, raised, calls, temp, fs, static, s3, db>>
vars == <<fn, arg, ret, pc, request, loc, response, raised, calls, temp, fs, static, s3, db>>

Min2(a, b) == IF a < b THEN a ELSE b
Max2(a, b) == IF a > b THEN a ELSE b

None == <<>>

\* ---------------------------------------------------------------------------
\* Program constants
\* ---------------------------------------------------------------------------
confidence_threshold == 740
default_window_size == 5
hop == 512
analysis_sr == 44100
default_threshold == 25
velocity == 100
default_tempo == 120

\* min_duration = 0.05 s, in ticks of 1/(2*sr) s
min_duration(sr) == (5 * 2 * sr) \div 100

\* ---------------------------------------------------------------------------
\* Note names: <<key, octave>>, as pretty_midi spells them (sharps only)
\* ---------------------------------------------------------------------------
KeyNames == <<"C", "C#", "D", "D#", "E", "F", "F#", "G", "G#", "A", "A#", "B">>

note_number_to_name(n) == <<KeyNames[(n % 12) + 1], (n \div 12) - 1>>

note_name_to_number(name) ==
    LET k == CHOOSE i \in 1..12 : KeyNames[i] = name[1]
    IN  (k - 1) + 12 * (name[2] + 1)

\* ---------------------------------------------------------------------------
\* sort_notes_data: sorted(notes_data, key=time), a stable insertion sort
\* ---------------------------------------------------------------------------
RECURSIVE InsertByTime(_, _)
InsertByTime(s, x) ==
    IF s = <<>> THEN <<x>>
    ELSE IF s[Len(s)].time <= x.time THEN Append(s, x)
    ELSE Append(InsertByTime(SubSeq(s, 1, Len(s) - 1), x), s[Len(s)])

RECURSIVE sort_notes_data(_)
sort_notes_data(notes_data) ==
    IF notes_data = <<>> THEN <<>>
    ELSE InsertByTime(sort_notes_data(SubSeq(notes_data, 1, Len(notes_data) - 1)),
                      notes_data[Len(notes_data)])

\* ---------------------------------------------------------------------------
\* smooth_pitch_data
\* ---------------------------------------------------------------------------
RECURSIVE SumTimes(_)
SumTimes(window) ==
    IF window = <<>> THEN 0 ELSE window[1].time + SumTimes(Tail(window))

\* note_counts: a dict in insertion order, as a sequence of <<note, count>>
RECURSIVE CountInto(_, _)
CountInto(counts, note) ==
    IF counts = <<>> THEN << <<note, 1>> >>
    ELSE IF counts[1][1] = note THEN << <<note, counts[1][2] + 1>> >> \o Tail(counts)
    ELSE <<counts[1]>> \o CountInto(Tail(counts), note)

RECURSIVE note_counts(_)
note_counts(window) ==
    IF window = <<>> THEN <<>>
    ELSE CountInto(note_counts(SubSeq(window, 1, Len(window) - 1)), window[Len(window)].note)

\* max(note_counts, key=note_counts.get): the first key holding the maximum
\* variant: a later key with the same count replaces the earlier one
RECURSIVE MaxKeyFrom_lastMax(_, _, _)
MaxKeyFrom_lastMax(counts, k, best) ==
    IF k > Len(counts) THEN counts[best][1]
    ELSE MaxKeyFrom_lastMax(counts, k + 1, IF counts[k][2] >= counts[best][2] THEN k ELSE best)

RECURSIVE MaxKeyFrom(_, _, _)
MaxKeyFrom(counts, k, best) ==
    IF k > Len(counts) THEN counts[best][1]
    ELSE MaxKeyFrom(counts, k + 1, IF counts[k][2] > counts[best][2] THEN k ELSE best)

MaxKey(counts) == MaxKeyFrom(counts, 2, 1)

WindowStart(i, window_size) == Max2(i - window_size \div 2, 0)
WindowEnd(i, window_size, n) == Min2(i + window_size \div 2 + 1, n)

\* one loop iteration, i counted from 0 as in the code
SmoothAt(notes_data, window_size, i) ==
    LET start  == WindowStart(i, window_size)
        end    == WindowEnd(i, window_size, Len(notes_data))
        window == SubSeq(notes_data, start + 1, end)
    IN  [time |-> [num |-> SumTimes(window), den |-> Len(window)],
         note |-> MaxKey(note_counts(window))]

smooth_pitch_data(notes_data, window_size) ==
    [k \in 1..Len(notes_data) |-> SmoothAt(notes_data, window_size, k - 1)]

\* ---------------------------------------------------------------------------
\* filter_and_combine_notes
\* ---------------------------------------------------------------------------
\* variant: on a change the new note is appended instead of the held one
FilterStep_emitsNew(st, note) ==
    IF st[2] # None /\ note.note # st[2]
    THEN <<Append(st[1], [note |-> note.note]), note.note>>
    ELSE IF st[2] = None THEN <<st[1], note.note>>
    ELSE st

\* one loop iteration over the state <<filtered_notes, last_note>>
FilterStep(st, note) ==
    IF st[2] # None /\ note.note # st[2]
    THEN <<Append(st[1], [note |-> st[2]]), note.note>>
    ELSE IF st[2] = None THEN <<st[1], note.note>>
    ELSE st

RECURSIVE FilterLoop(_, _)
FilterLoop(st, notes_data) ==
    IF notes_data = <<>> THEN st
    ELSE FilterLoop(FilterStep(st, notes_data[1]), Tail(notes_data))

filter_and_combine_notes(notes_data) ==
    LET st == FilterLoop(<<(<<>>), None>>, notes_data)
    IN  IF st[2] # None THEN Append(st[1], [note |-> st[2]]) ELSE st[1]

process_notes(notes_data) ==
    filter_and_combine_notes(smooth_pitch_data(notes_data, default_window_size))

\* ---------------------------------------------------------------------------
\* frequency_to_note_name.  Frequencies are in hundredths of a hertz.
\* 12*log2(f/440)+69 truncated by int() is the n with
\* SemitoneHz[n] <= f < SemitoneHz[n+1]; the table covers C4 (60) .. C5 (72).
\* ---------------------------------------------------------------------------
SemitoneHz ==
    [n \in 60..72 |->
        <<26163, 27718, 29366, 31113, 32963, 34923, 36999,
          39200, 41530, 44000, 46616, 49388, 52325>>[n - 59]]

hz_to_note_number(frequency) ==
    CHOOSE n \in 60..71 : SemitoneHz[n] <= frequency /\ frequency < SemitoneHz[n + 1]

frequency_to_note_name(frequency) ==
    IF frequency <= 0 THEN None
    ELSE note_number_to_name(hz_to_note_number(frequency))

\* round(float(c), 2): thousandths to hundredths
Round2(c) == (c + 5) \div 10

\* the inner loop of process_audio_chunks over one chunk's frames
RECURSIVE ChunkNotes(_)
ChunkNotes(frames) ==
    IF frames = <<>> THEN <<>>
    ELSE LET fr == frames[1]
             note_name == frequency_to_note_name(fr.f)
         IN  (IF fr.c >= confidence_threshold /\ note_name # None
              THEN <<[time |-> fr.t, note |-> note_name, confidence |-> Round2(fr.c)]>>
              ELSE <<>>) \o ChunkNotes(Tail(frames))

\* ---------------------------------------------------------------------------
\* calculate_amplitude_envelope.  A waveform is [len, amp]: len samples, the
\* samples of block b (hop samples each, the last one possibly shorter) all
\* having amplitude amp[b].  An envelope entry keeps the mean of squares as
\* the fraction sumsq / n; rms < threshold  <=>  sumsq < threshold^2 * n.
\* ---------------------------------------------------------------------------
\* sum of squares of the samples y[lo:hi]
RECURSIVE SumSqFrom(_, _, _, _)
SumSqFrom(y, lo, hi, b) ==
    IF b > Len(y.amp) THEN 0
    ELSE LET blo == Max2((b - 1) * hop, lo)
             bhi == Min2(Min2(b * hop, y.len), hi)
         IN  (IF bhi > blo THEN y.amp[b] * y.amp[b] * (bhi - blo) ELSE 0)
             + SumSqFrom(y, lo, hi, b + 1)

Frame(y, i, frame_size) ==
    LET hi == Min2(i + frame_size, y.len)
    IN  [sumsq |-> SumSqFrom(y, i, hi, 1), n |-> hi - i]

RECURSIVE EnvelopeFrom(_, _, _, _)
EnvelopeFrom(y, i, frame_size, hop_length) ==
    IF i >= y.len THEN <<>>
    ELSE <<Frame(y, i, frame_size)>> \o EnvelopeFrom(y, i + hop_length, frame_size, hop_length)

calculate_amplitude_envelope(y, frame_size, hop_length) ==
    EnvelopeFrom(y, 0, frame_size, hop_length)

BelowThreshold(e, threshold) == e.sumsq < threshold * threshold * e.n

\* ---------------------------------------------------------------------------
\* estimate_note_durations
\* ---------------------------------------------------------------------------
IndexError == -1

\* int(onset * sr), onset in ticks of 1/(2*sr) s
OnsetSample(onset, sr) == (onset * sr) \div (2 * sr)

\* variant: the scan checks the onset sample only
ScanEnd_firstOnly(amp_env, j, limit, threshold) ==
    IF j >= limit THEN limit
    ELSE IF j \div hop + 1 > Len(amp_env) THEN -1
    ELSE IF amp_env[j \div hop + 1].sumsq < threshold * threshold * amp_env[j \div hop + 1].n THEN j
    ELSE limit

\* for j in range(start, limit, 512): the sample index that ends the note,
\* limit if the loop runs out, IndexError if amp_env is indexed past its end
RECURSIVE ScanEnd(_, _, _, _)
ScanEnd(amp_env, j, limit, threshold) ==
    IF j >= limit THEN limit
    ELSE IF j \div hop + 1 > Len(amp_env) THEN IndexError
    ELSE IF BelowThreshold(amp_env[j \div hop + 1], threshold) THEN j
    ELSE ScanEnd(amp_env, j + hop, limit, threshold)

\* variant: the floor is not applied
Duration_noFloor(end_sample, onset_sample, sr) == (end_sample - onset_sample) * 2

\* max((end_sample - onset_sample) / sr, min_duration), in ticks
Duration(end_sample, onset_sample, sr) ==
    Max2((end_sample - onset_sample) * 2, min_duration(sr))

\* the duration appended for onset i (1-based); IndexError if the scan raised
DurationAt(onsets, i, y, amp_env, sr, threshold) ==
    LET onset_sample == OnsetSample(onsets[i], sr)
        limit        == IF i < Len(onsets) THEN OnsetSample(onsets[i + 1], sr) ELSE y.len
        end_sample   == ScanEnd(amp_env, onset_sample, limit, threshold)
    IN  IF end_sample = IndexError THEN IndexError
        ELSE Duration(end_sample, onset_sample, sr)

\* [raised, durations]: the list returned, or raised when a scan raised
estimate_note_durations(onsets, y, sr, threshold) ==
    LET amp_env == calculate_amplitude_envelope(y, sr, hop)
        ds      == [i \in 1..Len(onsets) |-> DurationAt(onsets, i, y, amp_env, sr, threshold)]
    IN  IF \E i \in 1..Len(onsets) : ds[i] = IndexError
        THEN [raised |-> TRUE, durations |-> <<>>]
        ELSE [raised |-> FALSE, durations |-> ds]

\* ---------------------------------------------------------------------------
\* create_midi_instrument
\* ---------------------------------------------------------------------------
min_length(filtered_notes, onsets, durations) ==
    Min2(Len(filtered_notes), Min2(Len(onsets), Len(durations)))

\* variant: the note ends at its duration instead of start + duration
Note_endIsDuration(filtered_notes, onsets, durations, i) ==
    [velocity |-> velocity,
     pitch    |-> note_name_to_number(filtered_notes[i].note),
     start    |-> onsets[i],
     end      |-> durations[i]]

\* Note(velocity=100, pitch, start, end), lines 283-288
Note(filtered_notes, onsets, durations, i) ==
    LET start_time == onsets[i]
        end_time   == start_time + durations[i]
    IN  [velocity |-> velocity,
         pitch    |-> note_name_to_number(filtered_notes[i].note),
         start    |-> start_time,
         end      |-> end_time]

create_midi_instrument(filtered_notes, onsets, durations) ==
    [i \in 1..min_length(filtered_notes, onsets, durations) |->
        Note(filtered_notes, onsets, durations, i)]

\* create_midi: the tempo that goes into the file
MidiTempo(tempo) == IF tempo <= 0 THEN default_tempo ELSE tempo

\* ===========================================================================
\* Bounds and input sets
\* ===========================================================================
MaxNotes == 5
MaxBlocks == 6
MaxOnsets == 2
MaxLen == 3

SeqsUpTo(S, n) == UNION {[1..k -> S] : k \in 0..n}

NoteNames == {<<"A", 4>>, <<"C", 4>>, <<"A#", 4>>}
WindowSizes == {3, default_window_size}

FrameTimes == {0, 3}
NotesData == [time : FrameTimes, note : NoteNames, confidence : {80}]

\* waveforms of up to MaxBlocks blocks, silent or loud, the last block full or short
Waveforms ==
    {[len |-> 0, amp |-> <<>>]} \cup
    UNION {{[len |-> k * hop - short, amp |-> a] : a \in [1..k -> {0, 100}], short \in {0, 100}}
           : k \in 1..MaxBlocks}

\* onset times (ticks); the onset detector reports times within the waveform
OnsetTimes == {0, 1025, 2000, 5121, 6144, 7168}
OnsetsWithin(y) == SeqsUpTo({t \in OnsetTimes : OnsetSample(t, analysis_sr) <= y.len}, MaxOnsets)

\* ===========================================================================
\* The /process route
\* ===========================================================================
Invocations == {1, 2}

webm_file == "temp_recording.webm"
wav_file == "temp_recording.wav"
NoFile == ""

Fr(t, f, c) == [t |-> t, f |-> f, c |-> c]
Wave(a) == [len |-> Len(a) * hop, amp |-> a]

\* What the external analysers return for each recording: the pitch
\* estimator's frames per chunk (times relative to the chunk), the decoded
\* waveform, the onset detector's times and the beat tracker's tempo.
Recordings ==
    [duet   |-> [chunks |-> << <<Fr(0, 44000, 900), Fr(1, 44000, 800), Fr(2, 45000, 500)>>,
                               <<Fr(0, 26200, 900), Fr(1, 26200, 950), Fr(2, 0, 990)>> >>,
                 y      |-> Wave(<<100, 100, 100, 100, 100, 0>>),
                 onsets |-> <<0, 6144>>,
                 tempo  |-> 120],
     hum    |-> [chunks |-> << <<Fr(0, 26200, 800)>> >>,
                 y      |-> Wave(<<100, 100, 100>>),
                 onsets |-> <<1025>>,
                 tempo  |-> 0],
     drone  |-> [chunks |-> << <<Fr(0, 44000, 900), Fr(1, 44000, 900)>> >>,
                 y      |-> Wave(<<100, 100>>),
                 onsets |-> <<>>,
                 tempo  |-> 90],
     clicks |-> [chunks |-> << <<Fr(0, 44000, 300)>> >>,
                 y      |-> Wave(<<100, 0>>),
                 onsets |-> <<0, 1025>>,
                 tempo  |-> 100],
     silent |-> [chunks |-> << <<Fr(0, 0, 100)>> >>,
                 y      |-> Wave(<<0, 0>>),
                 onsets |-> <<>>,
                 tempo  |-> 0]]

RecordingIds == DOMAIN Recordings

\* the users collection
Users == [u1 |-> "alice", u2 |-> ""]

Req(has_audio, audio, content_type, user_id) ==
    [has_audio |-> has_audio, audio |-> audio, content_type |-> content_type, user_id |-> user_id]

Requests ==
    {Req(TRUE, r, "audio/webm", u) : r \in RecordingIds, u \in {"", "u1"}}
    \cup {Req(TRUE, "hum", "audio/webm", "u2"),
          Req(TRUE, "hum", "audio/ogg", "u1"),
          Req(FALSE, NoFile, "", "")}

NoRequest == Req(FALSE, NoFile, "", "")
NoResponse == [status |-> 0, body |-> ""]
NoMidi == [exists |-> FALSE, tempo |-> 0, notes |-> <<>>]

InitLocals ==
    [have |-> {}, audio |-> NoFile, chunk |-> 0, notes_data |-> <<>>,
     notes_data_sorted |-> <<>>, y |-> NoFile, onsets |-> <<>>, durations |-> <<>>,
     tempo |-> 0, processed_notes |-> <<>>, midi_url |-> <<>>]

ProcInit ==
    /\ pc = [p \in Invocations |-> "idle"]
    /\ request = [p \in Invocations |-> NoRequest]
    /\ loc = [p \in Invocations |-> InitLocals]
    /\ response = [p \in Invocations |-> NoResponse]
    /\ raised = [p \in Invocations |-> ""]
    /\ calls = [p \in Invocations |-> [pitch |-> 0, onset |-> 0, tempo |-> 0, midi |-> 0]]
    /\ temp = [p \in Invocations |-> [written |-> {}, removed |-> {}]]
    /\ fs = [f \in {webm_file, wav_file} |-> NoFile]
    /\ static = [p \in Invocations |-> NoMidi]
    /\ s3 = [p \in Invocations |-> NoMidi]
    /\ db = {}

\* variant: the catch-all clause answers like a content rejection
ExceptStatus_catchAll400(exc) ==
    CASE exc = "IOError" -> 500
      [] exc = "ValueError" -> 500
      [] OTHER -> 400

\* the except clauses of process_data: every class of exception answers 500
ExceptStatus(exc) ==
    CASE exc = "IOError" -> 500
      [] exc = "ValueError" -> 500
      [] OTHER -> 500

\* an exception raised by `call` reaches the handler, which returns
Raise(p, call, exc) ==
    /\ pc' = [pc EXCEPT ![p] = "done"]
    /\ raised' = [raised EXCEPT ![p] = call]
    /\ response' = [response EXCEPT ![p] = [status |-> ExceptStatus(exc), body |-> "error"]]
    /\ UNCHANGED fnVars

Return(p, status, body) ==
    /\ pc' = [pc EXCEPT ![p] = "done"]
    /\ response' = [response EXCEPT ![p] = [status |-> status, body |-> body]]
    /\ UNCHANGED <<raised, fnVars>>

Goto(p, label) ==
    /\ pc' = [pc EXCEPT ![p] = label]
    /\ UNCHANGED <<response, raised, fnVars>>

Set(p, name, value) ==
    [loc EXCEPT ![p] = [[loc[p] EXCEPT !.have = @ \cup {name}] EXCEPT ![name] = value]]

\* lines 407-423: validate the request
Receive(p) ==
    /\ pc[p] = "idle"
    /\ \E r \in Requests :
        /\ request' = [request EXCEPT ![p] = r]
        /\ IF ~r.has_audio THEN Raise(p, "request", "ValueError")
           ELSE IF r.content_type # "audio/webm" THEN Return(p, 415, "error")
           ELSE Goto(p, "write")
    /\ UNCHANGED <<loc, calls, temp, fs, static, s3, db>>

\* line 430: write_audio_to_file(webm_file, file) creates or overwrites the file
WriteAudio(p) ==
    /\ pc[p] = "write"
    /\ fs' = [fs EXCEPT ![webm_file] = request[p].audio]
    /\ temp' = [temp EXCEPT ![p].written = @ \cup {webm_file}]
    /\ Goto(p, "convert")
    /\ UNCHANGED <<request, loc, calls, static, s3, db>>

\* line 433: ffmpeg -i webm wav.  Without -y ffmpeg refuses to overwrite an
\* existing output; it also fails on a missing or undecodable input.
ConvertFails(files, undecodable) ==
    files[webm_file] = NoFile \/ files[wav_file] # NoFile \/ undecodable

convert_webm_to_wav(p) ==
    /\ pc[p] = "convert"
    /\ \E undecodable \in BOOLEAN :
        IF ConvertFails(fs, undecodable)
        THEN /\ Raise(p, "convert", "ValueError")
             /\ UNCHANGED <<fs, temp>>
        ELSE /\ fs' = [fs EXCEPT ![wav_file] = fs[webm_file]]
             /\ temp' = [temp EXCEPT ![p].written = @ \cup {wav_file}]
             /\ Goto(p, "read")
    /\ UNCHANGED <<request, loc, calls, static, s3, db>>

\* line 437: audio, sr = sf.read(wav_file)
ReadAudio(p) ==
    /\ pc[p] = "read"
    /\ IF fs[wav_file] = NoFile
       THEN Raise(p, "read", "Exception") /\ UNCHANGED loc
       ELSE loc' = Set(p, "audio", fs[wav_file]) /\ Goto(p, "pitch")
    /\ UNCHANGED <<request, calls, temp, fs, static, s3, db>>

Chunks(audio) == Recordings[audio].chunks

\* lines 121-133: one iteration of the chunk loop of process_audio_chunks
PitchChunk(p) ==
    /\ pc[p] = "pitch"
    /\ loc[p].chunk < Len(Chunks(loc[p].audio))
    /\ calls' = [calls EXCEPT ![p].pitch = @ + 1]
    /\ \E crepe_raises \in BOOLEAN :
        IF crepe_raises
        THEN Raise(p, "pitch", "Exception") /\ UNCHANGED loc
        ELSE /\ loc' = [loc EXCEPT ![p].chunk = @ + 1,
                                   ![p].notes_data =
                                       @ \o ChunkNotes(Chunks(loc[p].audio)[loc[p].chunk + 1])]
             /\ Goto(p, "pitch")
    /\ UNCHANGED <<request, temp, fs, static, s3, db>>

\* lines 136, 442: the loop is over; notes_data_sorted = sort_notes_data(notes_data)
SortNotes(p) ==
    /\ pc[p] = "pitch"
    /\ loc[p].chunk >= Len(Chunks(loc[p].audio))
    /\ loc' = [Set(p, "notes_data", loc[p].notes_data)
                  EXCEPT ![p].notes_data_sorted = sort_notes_data(loc[p].notes_data),
                         ![p].have = @ \cup {"notes_data_sorted"}]
    /\ Goto(p, "load")
    /\ UNCHANGED <<request, calls, temp, fs, static, s3, db>>

\* line 447: y, sr = librosa.load(wav_file, sr=44100)
LoadAudio(p) ==
    /\ pc[p] = "load"
    /\ IF fs[wav_file] = NoFile
       THEN Raise(p, "load", "Exception") /\ UNCHANGED loc
       ELSE loc' = Set(p, "y", fs[wav_file]) /\ Goto(p, "onsets")
    /\ UNCHANGED <<request, calls, temp, fs, static, s3, db>>

\* line 450: detect_note_onsets(wav_file) loads the file again
detect_note_onsets(p) ==
    /\ pc[p] = "onsets"
    /\ IF fs[wav_file] = NoFile
       THEN Raise(p, "load", "Exception") /\ UNCHANGED <<loc, calls>>
       ELSE /\ calls' = [calls EXCEPT ![p].onset = @ + 1]
            /\ \E onset_detect_raises \in BOOLEAN :
                IF onset_detect_raises
                THEN Raise(p, "onset", "Exception") /\ UNCHANGED loc
                ELSE /\ loc' = Set(p, "onsets", Recordings[fs[wav_file]].onsets)
                     /\ Goto(p, "durations")
    /\ UNCHANGED <<request, temp, fs, static, s3, db>>

\* line 453: durations = estimate_note_durations(onsets, y, sr=44100)
EstimateDurations(p) ==
    /\ pc[p] = "durations"
    /\ LET r == estimate_note_durations(loc[p].onsets, Recordings[loc[p].y].y,
                                        analysis_sr, default_threshold)
       IN  IF r.raised
           THEN Raise(p, "durations", "Exception") /\ UNCHANGED loc
           ELSE loc' = Set(p, "durations", r.durations) /\ Goto(p, "tempo")
    /\ UNCHANGED <<request, calls, temp, fs, static, s3, db>>

\* line 456: estimate_tempo(wav_file) loads the file again
estimate_tempo(p) ==
    /\ pc[p] = "tempo"
    /\ IF fs[wav_file] = NoFile
       THEN Raise(p, "load", "Exception") /\ UNCHANGED <<loc, calls>>
       ELSE /\ calls' = [calls EXCEPT ![p].tempo = @ + 1]
            /\ \E beat_track_raises \in BOOLEAN :
                IF beat_track_raises
                THEN Raise(p, "tempo", "Exception") /\ UNCHANGED loc
                ELSE /\ loc' = Set(p, "tempo", Recordings[fs[wav_file]].tempo)
                     /\ Goto(p, "remove_webm")
    /\ UNCHANGED <<request, temp, fs, static, s3, db>>

\* lines 460, 85-86: clean_up_files is two os.remove calls; each raises
\* FileNotFoundError when its file is gone
Remove(p, file, next) ==
    /\ IF fs[file] = NoFile
       THEN Raise(p, "remove", "IOError") /\ UNCHANGED <<fs, temp>>
       ELSE /\ fs' = [fs EXCEPT ![file] = NoFile]
            /\ temp' = [temp EXCEPT ![p].removed = @ \cup {file}]
            /\ Goto(p, next)
    /\ UNCHANGED <<request, loc, calls, static, s3, db>>

RemoveWebm(p) == pc[p] = "remove_webm" /\ Remove(p, webm_file, "remove_wav")

RemoveWav(p) == pc[p] = "remove_wav" /\ Remove(p, wav_file, "check")

\* line 463: the argument of process_notes
StabilizerInput(p) == loc[p].notes_data

\* line 464: if not processed_notes
NoNotes(processed_notes) == processed_notes = <<>>

\* variant: the timing check is missing
NoTiming_unchecked(onsets, durations) == FALSE

\* line 469: if len(onsets) == 0 or len(durations) == 0
NoTiming(onsets, durations) == Len(onsets) = 0 \/ Len(durations) = 0

\* lines 463-471: stabilize the notes, reject a recording without notes or timing
CheckNotes(p) ==
    /\ pc[p] = "check"
    /\ LET processed_notes == process_notes(StabilizerInput(p))
       IN  /\ loc' = Set(p, "processed_notes", processed_notes)
           /\ IF NoNotes(processed_notes) THEN Return(p, 400, "no_notes")
              ELSE IF NoTiming(loc[p].onsets, loc[p].durations) THEN Return(p, 400, "no_timing")
              ELSE Goto(p, "midi")
    /\ UNCHANGED <<request, calls, temp, fs, static, s3, db>>

\* lines 332-334, 294-320: create_midi writes static/output_<uuid>.mid
create_midi(p) ==
    /\ pc[p] = "midi"
    /\ calls' = [calls EXCEPT ![p].midi = @ + 1]
    /\ \E write_raises \in BOOLEAN :
        IF write_raises
        THEN Raise(p, "midi", "Exception") /\ UNCHANGED static
        ELSE /\ static' = [static EXCEPT ![p] =
                    [exists |-> TRUE,
                     tempo  |-> MidiTempo(loc[p].tempo),
                     notes  |-> create_midi_instrument(loc[p].processed_notes,
                                                       loc[p].onsets, loc[p].durations)]]
             /\ Goto(p, "upload")
    /\ UNCHANGED <<request, loc, temp, fs, s3, db>>

\* lines 336-356: upload the file, remove the local copy, return the proxy URL
Upload(p) ==
    /\ pc[p] = "upload"
    /\ \E upload_raises \in BOOLEAN :
        IF upload_raises
        THEN Raise(p, "upload", "Exception") /\ UNCHANGED <<static, s3, loc>>
        ELSE /\ s3' = [s3 EXCEPT ![p] = static[p]]
             /\ static' = [static EXCEPT ![p] = NoMidi]
             /\ loc' = Set(p, "midi_url", <<"proxy-midi", p>>)
             /\ Goto(p, "store")
    /\ UNCHANGED <<request, calls, temp, fs, db>>

\* lines 363-380: "" when the user is unknown
find_username(user_id) == Users[user_id]

\* lines 383-397: the documents in the collection after store_in_db
store_in_db(docs, user_id, username, midi_url) ==
    IF username = "" THEN docs
    ELSE docs \cup {[user_id |-> user_id, username |-> username, midi_url |-> midi_url]}

\* lines 484-489: record the MIDI for a logged-in user and answer with its URL
Store(p) ==
    /\ pc[p] = "store"
    /\ IF request[p].user_id = ""
       THEN Return(p, 200, "midi_url") /\ UNCHANGED db
       ELSE \E db_raises \in BOOLEAN :
              IF db_raises
              THEN Raise(p, "db", "Exception") /\ UNCHANGED db
              ELSE /\ db' = store_in_db(db, request[p].user_id,
                                        find_username(request[p].user_id), loc[p].midi_url)
                   /\ Return(p, 200, "midi_url")
    /\ UNCHANGED <<request, loc, calls, temp, fs, static, s3>>

FnIdle == fn = "" /\ arg = <<>> /\ ret = <<>>

Init == FnIdle /\ ProcInit

Next ==
    \E p \in Invocations :
        \/ Receive(p)
        \/ WriteAudio(p)
        \/ convert_webm_to_wav(p)
        \/ ReadAudio(p)
        \/ PitchChunk(p)
        \/ SortNotes(p)
        \/ LoadAudio(p)
        \/ detect_note_onsets(p)
        \/ EstimateDurations(p)
        \/ estimate_tempo(p)
        \/ RemoveWebm(p)
        \/ RemoveWav(p)
        \/ CheckNotes(p)
        \/ create_midi(p)
        \/ Upload(p)
        \/ Store(p)

Spec == Init /\ [][Next]_vars

\* ===========================================================================
\* Pitch stabilizer functions applied to drawn inputs
\* ===========================================================================
StabInit ==
    /\ ProcInit
    /\ fn = ""
    /\ arg \in [notes_data : SeqsUpTo(NotesData, MaxNotes), window_size : WindowSizes]
    /\ ret = <<>>

CallSmooth ==
    /\ fn = ""
    /\ fn' = "smooth_pitch_data"
    /\ ret' = smooth_pitch_data(arg.notes_data, arg.window_size)
    /\ UNCHANGED <<arg, procVars>>

CallFilter ==
    /\ fn = ""
    /\ fn' = "filter_and_combine_notes"
    /\ ret' = filter_and_combine_notes(arg.notes_data)
    /\ UNCHANGED <<arg, procVars>>

CallSort ==
    /\ fn = ""
    /\ fn' = "sort_notes_data"
    /\ ret' = sort_notes_data(arg.notes_data)
    /\ UNCHANGED <<arg, procVars>>

StabNext == CallSmooth \/ CallFilter \/ CallSort

SpecStab == StabInit /\ [][StabNext]_vars

\* ===========================================================================
\* estimate_note_durations applied to drawn inputs
\* ===========================================================================
DurInit ==
    /\ ProcInit
    /\ fn = ""
    /\ arg \in UNION {[onsets : OnsetsWithin(y), y : {y}] : y \in Waveforms}
    /\ ret = <<>>

CallEstimate ==
    /\ fn = ""
    /\ fn' = "estimate_note_durations"
    /\ ret' = estimate_note_durations(arg.onsets, arg.y, analysis_sr, default_threshold)
    /\ UNCHANGED <<arg, procVars>>

CallEnvelope ==
    /\ fn = ""
    /\ fn' = "calculate_amplitude_envelope"
    /\ ret' = calculate_amplitude_envelope(arg.y, analysis_sr, hop)
    /\ UNCHANGED <<arg, procVars>>

DurNext == CallEstimate \/ CallEnvelope

SpecDur == DurInit /\ [][DurNext]_vars

\* ===========================================================================
\* create_midi_instrument applied to drawn inputs
\* ===========================================================================
MidiInit ==
    /\ ProcInit
    /\ fn = ""
    /\ arg \in [filtered_notes : SeqsUpTo([note : {<<"A", 4>>, <<"C", 4>>}], MaxLen),
                onsets : SeqsUpTo({0, 1025}, MaxLen),
                durations : SeqsUpTo({4410, 5120}, MaxLen)]
    /\ ret = <<>>

CallCreateInstrument ==
    /\ fn = ""
    /\ fn' = "create_midi_instrument"
    /\ ret' = create_midi_instrument(arg.filtered_notes, arg.onsets, arg.durations)
    /\ UNCHANGED <<arg, procVars>>

MidiNext == CallCreateInstrument

SpecMidi == MidiInit /\ [][MidiNext]_vars

\* ===========================================================================
\* Properties
\* ===========================================================================
Done(p) == pc[p] = "done"

RECURSIVE SumOver(_, _)
SumOver(f, S) ==
    IF S = {} THEN 0
    ELSE LET k == CHOOSE k \in S : TRUE IN f[k] + SumOver(f, S \ {k})

MinOf(S) == CHOOSE m \in S : \A x \in S : m <= x

\* C1: create_midi_instrument emits exactly M = min(P, Q, R) notes in index
\* order; note i has the pitch of filtered_notes[i], start onsets[i], end
\* onsets[i] + durations[i] and velocity 100; entries at index >= M of any of
\* the three sequences contribute nothing.
C1_ReconcilerTruncates ==
    fn = "create_midi_instrument" =>
        LET notes == arg.filtered_notes
            M == MinOf({Len(notes), Len(arg.onsets), Len(arg.durations)})
        IN  /\ Len(ret) = M
            /\ \A i \in 1..M :
                /\ note_number_to_name(ret[i].pitch) = notes[i].note
                /\ ret[i].start = arg.onsets[i]
                /\ ret[i].end = arg.onsets[i] + arg.durations[i]
                /\ ret[i].velocity = 100
            /\ ret = create_midi_instrument(SubSeq(notes, 1, M), SubSeq(arg.onsets, 1, M),
                                            SubSeq(arg.durations, 1, M))

C1_Witness ==
    /\ fn = "create_midi_instrument"
    /\ Len(arg.filtered_notes) = 3 /\ Len(arg.onsets) = 2 /\ Len(arg.durations) = 3
    /\ Len(ret) = 2
    /\ ret[1].pitch # ret[2].pitch

\* what the request left behind: a local MIDI file, an uploaded one, a document
NoArtifact(p) ==
    /\ ~static[p].exists
    /\ ~s3[p].exists
    /\ \A d \in db : d.midi_url # <<"proxy-midi", p>>

EmptyAnalysis(p) ==
    \/ "processed_notes" \in loc[p].have /\ loc[p].processed_notes = <<>>
    \/ "onsets" \in loc[p].have /\ loc[p].onsets = <<>>
    \/ "durations" \in loc[p].have /\ loc[p].durations = <<>>

SuccessHasNotes(p) ==
    response[p].status = 200 => s3[p].exists /\ Len(s3[p].notes) >= 1

\* C2 as stated: a request whose stabilized note list, onset sequence or
\* duration sequence is empty ends in a content rejection (400) with no MIDI
\* created, uploaded or recorded; every success carries at least one note.
C2_EmptyEndsInRejection ==
    \A p \in Invocations :
        Done(p) =>
            /\ EmptyAnalysis(p) => response[p].status = 400 /\ NoArtifact(p)
            /\ SuccessHasNotes(p)

\* C2 amended: such a request never succeeds and leaves no MIDI created,
\* uploaded or recorded; it ends in a content rejection (400) unless a call
\* raised before the checks, and then in the internal failure (500); every
\* success carries at least one note.
C2_EmptyNeverSucceeds ==
    \A p \in Invocations :
        Done(p) =>
            /\ EmptyAnalysis(p) =>
                /\ response[p].status = (IF raised[p] = "" THEN 400 ELSE 500)
                /\ NoArtifact(p)
            /\ SuccessHasNotes(p)

C2_Witness ==
    \E p \in Invocations :
        /\ Done(p) /\ raised[p] = "" /\ response[p].status = 400
        /\ loc[p].processed_notes # <<>> /\ loc[p].onsets = <<>>
        /\ \E q \in Invocations : response[q].status = 200 /\ Len(s3[q].notes) = 2

\* C3: when the pitch estimator, the onset detector, the tempo tracker or
\* MIDI serialization raises, the invocation ends with the internal-failure
\* status, which is not the content-rejection status; the call is not made
\* again, and the invocation uploads no MIDI and inserts no document.
C3_EstimatorFailureIsFatal ==
    \A p \in Invocations :
        raised[p] \in {"pitch", "onset", "tempo", "midi"} =>
            /\ Done(p)
            /\ response[p].status = 500
            /\ response[p].status # 400
            /\ ~s3[p].exists
            /\ \A d \in db : d.midi_url # <<"proxy-midi", p>>
            /\ calls[p].onset <= 1 /\ calls[p].tempo <= 1 /\ calls[p].midi <= 1
            /\ calls[p].pitch <= Len(Chunks(loc[p].audio))
            /\ calls[p][raised[p]] >= 1

C3_Witness ==
    \E p \in Invocations :
        /\ raised[p] = "midi" /\ Done(p) /\ response[p].status = 500
        /\ \E q \in Invocations : raised[q] = "pitch" /\ calls[q].pitch = 2

\* C4: an invocation analyses only its own recording, whatever the other
\* invocation does, and no call of it fails on a file the other one removed.
C4_InvocationsAreIsolated ==
    \A p \in Invocations :
        /\ loc[p].audio \in {NoFile, request[p].audio}
        /\ loc[p].y \in {NoFile, request[p].audio}
        /\ raised[p] \notin {"read", "load", "remove"}
        /\ s3[p].exists => s3[p].tempo = MidiTempo(Recordings[request[p].audio].tempo)

IsSortedByTime(notes_data) ==
    \A i, j \in 1..Len(notes_data) : i < j => notes_data[i].time <= notes_data[j].time

\* C5: the sequence handed to process_notes is sorted ascending by time.
C5_StabilizerInputSorted ==
    \A p \in Invocations :
        "processed_notes" \in loc[p].have => IsSortedByTime(StabilizerInput(p))

\* C6: every duration returned by estimate_note_durations is at least
\* 0.05 s (ticks / (2 * sr) >= 1/20).
C6_DurationFloor ==
    fn = "estimate_note_durations" =>
        /\ ~ret.raised
        /\ \A i \in 1..Len(ret.durations) : 20 * ret.durations[i] >= 2 * analysis_sr

C6_Witness ==
    /\ fn = "estimate_note_durations"
    /\ Len(arg.onsets) = 2
    /\ arg.onsets[2] <= arg.onsets[1]
    /\ OnsetSample(arg.onsets[2], analysis_sr) + hop < arg.y.len
    /\ BelowThreshold(calculate_amplitude_envelope(arg.y, analysis_sr, hop)
                          [OnsetSample(arg.onsets[2], analysis_sr) \div hop + 1],
                      default_threshold)
    /\ arg.y.amp[1] > 0
    /\ ret.durations = <<min_duration(analysis_sr), min_duration(analysis_sr)>>

\* the sample indices range(start, limit, 512) visits
Scanned(start, limit) ==
    IF limit <= start THEN {}
    ELSE {start + 512 * k : k \in 0..((limit - start - 1) \div 512)}

\* C7: one duration per onset, in onset order; the boundary of onset i is the
\* first scanned index (from the onset sample, in steps of 512, below the
\* next onset sample or the waveform end) whose envelope value at j // 512 is
\* below the threshold, or the scan limit; the duration is
\* (boundary - onset sample) / sr raised to the floor.
C7_DurationPerOnset ==
    fn = "estimate_note_durations" =>
        LET onsets == arg.onsets
            N      == Len(onsets)
            env    == calculate_amplitude_envelope(arg.y, analysis_sr, hop)
        IN  /\ ~ret.raised
            /\ Len(ret.durations) = N
            /\ \A i \in 1..N :
                LET start    == onsets[i] \div 2
                    limit    == IF i < N THEN onsets[i + 1] \div 2 ELSE arg.y.len
                    hits     == {j \in Scanned(start, limit) :
                                    LET e == env[j \div 512 + 1] IN e.sumsq < 625 * e.n}
                    boundary == IF hits = {} THEN limit ELSE MinOf(hits)
                    raw      == (boundary - start) * 2
                IN  ret.durations[i] = (IF 20 * raw >= 2 * analysis_sr THEN raw
                                        ELSE (2 * analysis_sr) \div 20)

C7_Witness ==
    /\ fn = "estimate_note_durations"
    /\ arg.onsets = <<0, 6144>>
    /\ arg.y.len = 6 * hop
    /\ ret.durations = <<5120, 4410>>

\* C8: the output of filter_and_combine_notes has no two adjacent entries
\* with the same note and is the input's notes with each maximal run of equal
\* consecutive notes reduced to one entry, in order; collapsing the output
\* again changes nothing, an empty input gives an empty output and an input
\* of one repeated note gives a single entry.
C8_CollapseRuns ==
    fn = "filter_and_combine_notes" =>
        LET in    == arg.notes_data
            heads == {i \in 1..Len(in) : i = 1 \/ in[i].note # in[i - 1].note}
            head(k) == CHOOSE i \in heads : Cardinality({j \in heads : j <= i}) = k
        IN  /\ \A k \in 1..(Len(ret) - 1) : ret[k].note # ret[k + 1].note
            /\ Len(ret) = Cardinality(heads)
            /\ \A k \in 1..Len(ret) : ret[k] = [note |-> in[head(k)].note]
            /\ filter_and_combine_notes(ret) = ret
            /\ in = <<>> => ret = <<>>
            /\ (in # <<>> /\ \A i \in 1..Len(in) : in[i].note = in[1].note) => Len(ret) = 1

C8_Witness ==
    /\ fn = "filter_and_combine_notes"
    /\ Len(arg.notes_data) = 5
    /\ arg.notes_data[1].note = arg.notes_data[2].note
    /\ arg.notes_data[4].note = arg.notes_data[5].note
    /\ Len(ret) = 3
    /\ ret[1].note = ret[3].note

\* C9: smooth_pitch_data emits one record per input index; record i is
\* computed over the indices [max(i - w div 2, 0), min(i + w div 2 + 1, n));
\* its time is the mean of the window's times and its note the note with the
\* highest count in the window, ties going to the note that occurs first.
C9_SmoothWindow ==
    fn = "smooth_pitch_data" =>
        LET nd == arg.notes_data
            n  == Len(nd)
            w  == arg.window_size
        IN  /\ Len(ret) = n
            /\ \A i \in 0..(n - 1) :
                LET lo == IF i - (w \div 2) > 0 THEN i - (w \div 2) ELSE 0
                    hi == IF i + (w \div 2) + 1 < n THEN i + (w \div 2) + 1 ELSE n
                    W  == {k \in 1..n : lo < k /\ k <= hi}
                    Count(x) == Cardinality({k \in W : nd[k].note = x})
                    First(x) == MinOf({k \in W : nd[k].note = x})
                    r  == ret[i + 1]
                IN  /\ r.time.den = Cardinality(W)
                    /\ r.time.num = SumOver([k \in W |-> nd[k].time], W)
                    /\ Count(r.note) > 0
                    /\ \A k \in W :
                        LET x == nd[k].note
                        IN  /\ Count(x) <= Count(r.note)
                            /\ (x # r.note /\ Count(x) = Count(r.note))
                                   => First(r.note) < First(x)

C9_Witness ==
    /\ fn = "smooth_pitch_data"
    /\ arg.window_size = 5
    /\ Len(arg.notes_data) = 5
    /\ arg.notes_data[1].note # arg.notes_data[2].note
    /\ arg.notes_data[2].note = arg.notes_data[3].note
    /\ arg.notes_data[4].note = arg.notes_data[1].note
    /\ arg.notes_data[5].note = arg.notes_data[1].note
    /\ ret[2].note = arg.notes_data[1].note
    /\ ret[3].time = [num |-> SumTimes(arg.notes_data), den |-> 5]
    /\ arg.notes_data[1].time # arg.notes_data[5].time

\* C10: an invocation that has returned has removed every temporary file it
\* wrote.
C10_TempFilesRemoved ==
    \A p \in Invocations : Done(p) => temp[p].written \subseteq temp[p].removed

====
